---- MODULE Spec2Model ----
(***************************************************************************)
(* yalskv: an append-only log (StoreFile) with an in-memory index (Store). *)
(* Files are modelled as byte sequences with the OS stream position kept   *)
(* next to them; records are encoded and decoded byte by byte as in        *)
(* src/lib.rs.  Option<T> is the empty sequence (None) or <<x>> (Some(x)). *)
(***************************************************************************)
EXTENDS Integers, Sequences, FiniteSets, TLC

\* ---------------------------------------------------------------- bounds
\* Number of insert/remove calls explored in one behaviour.
MaxOps == 3
\* Number of insert/remove calls explored in a behaviour that also moves the
\* cursor of the active log through Store::file().
MaxCursorOps == 2

\* Keys, values and reduce limits the callers pass in.  <<1, 2>> sorts
\* between <<1>> and <<2>> in lexicographic byte order although it is longer.
Keys == {<<1>>, <<1, 2>>, <<2>>}
Vals == {<<7>>, <<8, 9>>}
\* 1: every record in a chunk of its own; 40: two records per chunk;
\* 1024: the whole log in one chunk.
Limits == {1, 40, 1024}

\* ------------------------------------------------------------- constants
INSERT == 1
REMOVE == 2
\* Store::open: let id = FileId(1)
ActiveId == 1

\* Values of 2^24 and above are not told apart: every file of the model is
\* far shorter, so a length that large always runs past the end of the file
\* and an opcode that large is never INSERT or REMOVE.
Big == 256 * 65536

None == <<>>
Some(x) == <<x>>

\* ------------------------------------------------------------ byte codec
\* u64::to_be_bytes / u32::to_be_bytes: n as w big-endian bytes.
RECURSIVE to_be_bytes(_, _)
to_be_bytes(n, w) ==
    IF w = 0 THEN <<>> ELSE to_be_bytes(n \div 256, w - 1) \o <<n % 256>>

\* u64::from_be_bytes / u32::from_be_bytes (saturating at Big): the bytes are
\* folded from the most significant one.
RECURSIVE be_fold(_, _)
be_fold(acc, b) ==
    IF b = <<>> THEN acc
    ELSE be_fold(IF acc >= Big \div 256 THEN Big ELSE acc * 256 + b[1], Tail(b))

from_be_bytes(b) == be_fold(0, b)

\* Record::Insert(key, val) and Record::Remove(key).
InsertRec(key, val) == [tag |-> "Insert", key |-> key, val |-> val]
RemoveRec(key) == [tag |-> "Remove", key |-> key, val |-> <<>>]

\* Mutant of RecVal: a Remove record is taken to carry an (empty) value.
RecVal_tombstone_value(record) == Some(record.val)

\* Record::val
RecVal(record) == IF record.tag = "Insert" THEN Some(record.val) ELSE None

\* Record::len
RecLen(record) ==
    IF record.tag = "Insert"
    THEN 8 + 2 * 4 + Len(record.key) + Len(record.val)
    ELSE 8 + 4 + Len(record.key)

\* -------------------------------------------------------------- OS file
\* A std::fs::File: the bytes of the file it is open on and the stream
\* position of the handle.
\* File::write_all: writes at the stream position, overwriting what is there
\* and extending the file where the data runs past its end.
write_all(f, data) ==
    LET n   == Len(data)
        old == f.bytes
        pad == IF f.pos > Len(old) THEN [i \in 1..(f.pos - Len(old)) |-> 0] ELSE <<>>
        pre == SubSeq(old \o pad, 1, f.pos)
        suf == IF f.pos + n < Len(old) THEN SubSeq(old, f.pos + n + 1, Len(old)) ELSE <<>>
    IN  [bytes |-> pre \o data \o suf, pos |-> f.pos + n]

\* FileExt::read_exact_at: exactly n bytes from offset off, or UnexpectedEof.
\* The stream position is not used and not moved.
read_exact_at(f, n, off) ==
    IF n = 0 THEN [ok |-> TRUE, buf |-> <<>>]
    ELSE IF off + n <= Len(f.bytes)
         THEN [ok |-> TRUE, buf |-> SubSeq(f.bytes, off + 1, off + n)]
         ELSE [ok |-> FALSE, buf |-> <<>>]

\* ------------------------------------------------------------ StoreFile
\* StoreFile::create(id, path, truncate) on a path whose file holds `disk`
\* (<<>> when the file does not exist yet).
create(fid, disk, truncate) ==
    LET bytes == IF truncate THEN <<>> ELSE disk
    IN  [id |-> fid,
         file |-> [bytes |-> bytes, pos |-> 0],
         offset |-> Len(bytes),
         recent_peek |-> None]

\* StoreFile::open
open(fid, disk) == create(fid, disk, FALSE)

\* Mutant of make: the file is opened without truncate.
make_keep_content(fid, disk) == create(fid, disk, FALSE)

\* StoreFile::make
make(fid, disk) == create(fid, disk, TRUE)

\* The IndexEntry StoreFile::insert returns.
IndexEntry(fid, offset, length) ==
    [file |-> fid, offset |-> offset, length |-> length]

\* Mutant of StoreFile_insert: the entry points at the start of the record
\* instead of the start of the value.
StoreFile_insert_at_header(sf, key, val) ==
    LET key_len == Len(key)
        val_len == Len(val)
        f1 == write_all(sf.file, to_be_bytes(INSERT, 8))
        f2 == write_all(f1, to_be_bytes(key_len, 4))
        f3 == write_all(f2, to_be_bytes(val_len, 4))
        f4 == write_all(f3, key)
        f5 == write_all(f4, val)
        length == 8 + 2 * 4 + key_len + val_len
        offset == sf.offset + length
    IN  [sf    |-> [sf EXCEPT !.file = f5, !.offset = offset],
         entry |-> IndexEntry(sf.id, offset - length, val_len)]

\* StoreFile::insert: five write_all calls at the stream position, then the
\* offset is advanced by the record length.
StoreFile_insert(sf, key, val) ==
    LET key_len == Len(key)
        val_len == Len(val)
        f1 == write_all(sf.file, to_be_bytes(INSERT, 8))
        f2 == write_all(f1, to_be_bytes(key_len, 4))
        f3 == write_all(f2, to_be_bytes(val_len, 4))
        f4 == write_all(f3, key)
        f5 == write_all(f4, val)
        length == 8 + 2 * 4 + key_len + val_len
        offset == sf.offset + length
    IN  [sf    |-> [sf EXCEPT !.file = f5, !.offset = offset],
         entry |-> IndexEntry(sf.id, offset - val_len, val_len)]

\* StoreFile::remove
StoreFile_remove(sf, key) ==
    LET key_len == Len(key)
        f1 == write_all(sf.file, to_be_bytes(REMOVE, 8))
        f2 == write_all(f1, to_be_bytes(key_len, 4))
        f3 == write_all(f2, key)
        length == 8 + 4 + key_len
    IN  [sf EXCEPT !.file = f3, !.offset = sf.offset + length]

\* The Err path of StoreFile::insert: a write_all call fails after n of the
\* five calls succeeded.  What they wrote stays in the file and the stream
\* position stays behind it; `?` returns before the offset is advanced.
RECURSIVE write_parts(_, _, _)
write_parts(f, parts, n) ==
    IF n = 0 \/ parts = <<>> THEN f
    ELSE write_parts(write_all(f, Head(parts)), Tail(parts), n - 1)

StoreFile_insert_fail(sf, key, val, n) ==
    [sf EXCEPT !.file = write_parts(sf.file,
                            <<to_be_bytes(INSERT, 8), to_be_bytes(Len(key), 4),
                              to_be_bytes(Len(val), 4), key, val>>, n)]

\* The Err path of StoreFile::remove, after n of the three write_all calls.
StoreFile_remove_fail(sf, key, n) ==
    [sf EXCEPT !.file = write_parts(sf.file,
                            <<to_be_bytes(REMOVE, 8), to_be_bytes(Len(key), 4), key>>, n)]

\* StoreFile::exec
exec(sf, record) ==
    IF record.tag = "Insert"
    THEN StoreFile_insert(sf, record.key, record.val).sf
    ELSE StoreFile_remove(sf, record.key)

\* Mutant of read: the bytes are read by seeking to the offset, and the
\* stream position is left behind them.
read_by_seek(sf, offset, length) ==
    LET r == read_exact_at(sf.file, length, offset)
    IN  [ok  |-> r.ok,
         buf |-> r.buf,
         sf  |-> IF r.ok THEN [sf EXCEPT !.file.pos = offset + length] ELSE sf]

\* StoreFile::read: the stream position is saved, the bytes are read at the
\* given offset (which does not move the stream position) and the saved
\* position is restored by a seek; on a failed read the seek is skipped.
read(sf, offset, length) ==
    LET pos == sf.file.pos
        r   == read_exact_at(sf.file, length, offset)
    IN  [ok  |-> r.ok,
         buf |-> r.buf,
         sf  |-> IF r.ok THEN [sf EXCEPT !.file.pos = pos] ELSE sf]

NoRecord == [tag |-> "None", key |-> <<>>, val |-> <<>>]

\* Err(e) from read_record or peek_record: the StoreFile is left as it was.
ReadErr(sf) == [ok |-> FALSE, rec |-> NoRecord, sf |-> sf]

\* read_record, peek branch: the cached record is taken and the offset is
\* advanced by its length.
read_peeked(sf, record) ==
    [ok |-> TRUE, rec |-> record,
     sf |-> [sf EXCEPT !.recent_peek = None, !.offset = @ + RecLen(record)]]

\* read_record, INSERT arm, after the key and value bytes were read into buf.
read_insert(sf, key_len, val_len, buf) ==
    IF ~buf.ok THEN ReadErr(sf)
    ELSE [ok |-> TRUE,
          rec |-> InsertRec(SubSeq(buf.buf, 1, key_len),
                            SubSeq(buf.buf, key_len + 1, key_len + val_len)),
          sf |-> [sf EXCEPT !.offset = @ + 16 + key_len + val_len]]

\* read_record, INSERT arm, after the 4 bytes of val_len were read into v4.
read_insert_len(sf, key_len, v4) ==
    IF ~v4.ok THEN ReadErr(sf)
    ELSE read_insert(sf, key_len, from_be_bytes(v4.buf),
                     read_exact_at(sf.file, key_len + from_be_bytes(v4.buf),
                                   sf.offset + 16))

\* read_record, REMOVE arm, after the key bytes were read into buf.
read_remove(sf, key_len, buf) ==
    IF ~buf.ok THEN ReadErr(sf)
    ELSE [ok |-> TRUE, rec |-> RemoveRec(buf.buf),
          sf |-> [sf EXCEPT !.offset = @ + 12 + key_len]]

\* read_record: match op { INSERT => .., REMOVE => .., _ => Unsupported }
read_op(sf, op, key_len) ==
    IF op = INSERT
    THEN read_insert_len(sf, key_len, read_exact_at(sf.file, 4, sf.offset + 12))
    ELSE IF op = REMOVE
    THEN read_remove(sf, key_len, read_exact_at(sf.file, key_len, sf.offset + 12))
    ELSE ReadErr(sf)

\* read_record after the 8 bytes of op (b8) and the 4 bytes of key_len (b4)
\* were read at the offset.
read_header(sf, b8, b4) ==
    IF ~b8.ok \/ ~b4.ok THEN ReadErr(sf)
    ELSE read_op(sf, from_be_bytes(b8.buf), from_be_bytes(b4.buf))

\* StoreFile::read_record
read_record(sf) ==
    IF sf.recent_peek # None
    THEN read_peeked(sf, sf.recent_peek[1])
    ELSE read_header(sf, read_exact_at(sf.file, 8, sf.offset),
                         read_exact_at(sf.file, 4, sf.offset + 8))

\* peek_record after read_record returned r: the offset is moved back and
\* the record is cached.
peek_cache(r) ==
    IF ~r.ok THEN r
    ELSE [ok |-> TRUE, rec |-> r.rec,
          sf |-> [r.sf EXCEPT !.offset = @ - RecLen(r.rec),
                              !.recent_peek = Some(r.rec)]]

\* StoreFile::peek_record
peek_record(sf) ==
    IF sf.recent_peek # None
    THEN [ok |-> TRUE, rec |-> sf.recent_peek[1], sf |-> sf]
    ELSE peek_cache(read_record(sf))

\* StoreFile::reset
reset(sf) == [sf EXCEPT !.file.pos = 0, !.offset = 0]

\* Mutant of unset: the offset is set but the stream position is not moved.
unset_offset_only(sf) == [sf EXCEPT !.offset = Len(sf.file.bytes)]

\* StoreFile::unset
unset(sf) == [sf EXCEPT !.offset = Len(sf.file.bytes), !.file.pos = Len(sf.file.bytes)]

\* Iterator for StoreFile: next() = read_record().ok(); the records a for
\* loop over the file collects until next() returns None.
RECURSIVE Iterate(_)
iter_next(r) == IF r.ok THEN <<r.rec>> \o Iterate(r.sf) ELSE <<>>

Iterate(sf) == iter_next(read_record(sf))

\* ------------------------------------------------------- reduce pipeline
\* Mutant of cmp: shorter keys sort first, equal lengths byte by byte.
RECURSIVE cmp_length_first(_, _)
cmp_length_first(a, b) ==
    IF Len(a) < Len(b) THEN -1
    ELSE IF Len(a) > Len(b) THEN 1
    ELSE IF a = <<>> THEN 0
    ELSE IF a[1] < b[1] THEN -1
    ELSE IF a[1] > b[1] THEN 1
    ELSE cmp_length_first(Tail(a), Tail(b))

\* Ord for byte slices, as used by a.key().cmp(b.key()): lexicographic,
\* a proper prefix sorts first.  -1 Less, 0 Equal, 1 Greater.
RECURSIVE cmp(_, _)
cmp(a, b) ==
    IF a = <<>> /\ b = <<>> THEN 0
    ELSE IF a = <<>> THEN -1
    ELSE IF b = <<>> THEN 1
    ELSE IF a[1] < b[1] THEN -1
    ELSE IF a[1] > b[1] THEN 1
    ELSE cmp(Tail(a), Tail(b))

\* Mutant of sort_by: an unstable sort, a record goes in front of the
\* records with the same key.
RECURSIVE sort_by_unstable(_)
sort_by_unstable(records) ==
    IF records = <<>> THEN <<>>
    ELSE LET n    == Len(records)
             r    == records[n]
             s    == sort_by_unstable(SubSeq(records, 1, n - 1))
             keep == Cardinality({i \in 1..Len(s) : cmp(s[i].key, r.key) < 0})
         IN  SubSeq(s, 1, keep) \o <<r>> \o SubSeq(s, keep + 1, Len(s))

\* records.sort_by(|a, b| a.key().cmp(b.key())): a stable sort, so records
\* with equal keys keep their relative order.
RECURSIVE sort_by(_)
sort_by(records) ==
    IF records = <<>> THEN <<>>
    ELSE LET n    == Len(records)
             r    == records[n]
             s    == sort_by(SubSeq(records, 1, n - 1))
             keep == Cardinality({i \in 1..Len(s) : cmp(s[i].key, r.key) <= 0})
         IN  SubSeq(s, 1, keep) \o <<r>> \o SubSeq(s, keep + 1, Len(s))

\* split::make_file: StoreFile::open on <scratch dir>/<idx>.dat; dir[idx + 1]
\* holds the bytes of that file when it already exists.
make_file(idx, dir) ==
    open(idx, IF idx + 1 <= Len(dir) THEN dir[idx + 1] ELSE <<>>)

RECURSIVE exec_all(_, _)
exec_all(sf, records) ==
    IF records = <<>> THEN sf
    ELSE exec_all(exec(sf, Head(records)), Tail(records))

\* split::dump_file
dump_file(sf, records) ==
    IF records = <<>> THEN sf ELSE exec_all(sf, sort_by(records))

\* An I/O error the device raises during a reduce call: none, or one at
\* the call number `at` (counted from 0) of the kind
\*   "split_read"   src.read_record() in split,
\*   "split_write"  make_file(..)? / dump_file(..)? in split,
\*   "make"         StoreFile::make(..)? in reduce,
\*   "merge_write"  dst.insert(..)? in merge,
\*   "cleanup"      remove_dir_all(..)? in reduce.
NoFault == [kind |-> "none", at |-> 0]

\* make_file(result.len())? fails for the chunk about to be written.
chunk_fails(st) ==
    st.fault.kind = "split_write" /\ st.fault.at = Len(st.result)

\* The while-let loop of split: st = [src, result, records, len] and, for
\* the I/O errors, [reads, ok, fault]: the number of records read so far,
\* whether split is still running without Err, and the error to raise.
RECURSIVE split_loop(_, _, _)

\* One turn of the loop, r being what src.read_record() returned: any Err
\* ends the loop.
split_step(st, r, dir, split_size_bytes) ==
    IF ~r.ok THEN st
    ELSE IF st.len + RecLen(r.rec) > split_size_bytes
    THEN IF chunk_fails(st)
         THEN [st EXCEPT !.src = r.sf, !.ok = FALSE]
         ELSE split_loop([st EXCEPT
                     !.src     = r.sf,
                     !.result  = Append(st.result,
                                    dump_file(make_file(Len(st.result), dir), st.records)),
                     !.records = <<r.rec>>,
                     !.len     = RecLen(r.rec),
                     !.reads   = @ + 1], dir, split_size_bytes)
    ELSE split_loop([st EXCEPT
                     !.src     = r.sf,
                     !.records = Append(st.records, r.rec),
                     !.len     = st.len + RecLen(r.rec),
                     !.reads   = @ + 1], dir, split_size_bytes)

split_loop(st, dir, split_size_bytes) ==
    split_step(st,
               IF st.fault.kind = "split_read" /\ st.fault.at = st.reads
               THEN ReadErr(st.src)
               ELSE read_record(st.src),
               dir, split_size_bytes)

\* The closing loop of split: every chunk file is flushed and reset.
RECURSIVE reset_all(_)
reset_all(result) ==
    IF result = <<>> THEN <<>>
    ELSE <<reset(Head(result))>> \o reset_all(Tail(result))

\* Mutant of split_finish: the records collected after the last full chunk
\* are not written.
split_finish_drop_tail(st, dir) ==
    [ok |-> st.ok, src |-> st.src, chunks |-> reset_all(st.result)]

\* The end of split, after the loop: the last (possibly partial) chunk is
\* written and every chunk is reset.
\* When a `?` returned Err, the chunks written so far stay in the scratch
\* directory.
split_finish(st, dir) ==
    IF ~st.ok \/ chunk_fails(st)
    THEN [ok |-> FALSE, src |-> st.src, chunks |-> st.result]
    ELSE [ok     |-> TRUE,
          src    |-> st.src,
          chunks |-> reset_all(Append(st.result,
                         dump_file(make_file(Len(st.result), dir), st.records)))]

\* split(src, base, split_size_bytes) on a device that raises `fault`; dir
\* is the content of the scratch directory base/<id> before the call.
split_with(src, dir, split_size_bytes, fault) ==
    split_finish(split_loop([src |-> reset(src), result |-> <<>>,
                             records |-> <<>>, len |-> 0,
                             reads |-> 0, ok |-> TRUE, fault |-> fault],
                            dir, split_size_bytes),
                 dir)

\* split(src, base, split_size_bytes) without I/O errors.
split(src, dir, split_size_bytes) == split_with(src, dir, split_size_bytes, NoFault)

\* Mutant of min_by: of the chunks with the smallest key the last one wins.
min_by_last(cands, peeked) ==
    CHOOSE i \in cands :
        \A j \in cands :
            LET c == cmp(peeked[i].rec.key, peeked[j].rec.key)
            IN  c < 0 \/ (c = 0 /\ i >= j)

\* Iterator::min_by over the chunks whose peek succeeded: the first of the
\* chunks with the smallest key.
min_by(cands, peeked) ==
    CHOOSE i \in cands :
        \A j \in cands :
            LET c == cmp(peeked[i].rec.key, peeked[j].rec.key)
            IN  c < 0 \/ (c = 0 /\ i <= j)

\* src.peek_record() on every chunk, in order.
RECURSIVE peek_all(_)
peek_all(srcs) ==
    IF srcs = <<>> THEN <<>>
    ELSE <<peek_record(Head(srcs))>> \o peek_all(Tail(srcs))

\* The chunks as the peeks left them (a successful peek fills the cache).
RECURSIVE peeked_srcs(_)
peeked_srcs(peeked) ==
    IF peeked = <<>> THEN <<>>
    ELSE <<Head(peeked).sf>> \o peeked_srcs(Tail(peeked))

\* merge::pick: peeks every chunk and returns the index of the chosen chunk,
\* 0 for None.
pick(srcs) ==
    LET peeked == peek_all(srcs)
        cands  == {i \in 1..Len(srcs) : peeked[i].ok}
    IN  [srcs |-> peeked_srcs(peeked),
         i    |-> IF cands = {} THEN 0 ELSE min_by(cands, peeked)]

\* Mutant of index_remove: the key stays in the index.
index_remove_kept(idx, key) == idx

\* BTreeMap::insert and BTreeMap::remove on the index.
index_insert(idx, key, entry) == (key :> entry) @@ idx

index_remove(idx, key) == [k \in (DOMAIN idx) \ {key} |-> idx[k]]

EmptyIndex == <<>>

\* dst.insert(..)? fails for the key about to be written: every insert of
\* merge is followed by an index.insert of a new key, so the index holds as
\* many keys as inserts were made.
insert_fails(st) ==
    st.fault.kind = "merge_write" /\ st.fault.at = Cardinality(DOMAIN st.index)

\* The body of merge's loop once the record is read: the duplicate collapser.
\* st = [dst, srcs, index, current_key, current_val] and, for the I/O
\* errors, [ok, fault].
collapse(st, record) ==
    LET key0 == IF st.current_key = None THEN Some(record.key) ELSE st.current_key
        emit == record.key # key0[1] /\ st.current_val # None
        ins  == StoreFile_insert(st.dst, key0[1], st.current_val[1])
    IN  IF emit /\ insert_fails(st)
        THEN [st EXCEPT !.ok = FALSE]
        ELSE [st EXCEPT
                !.dst   = IF emit THEN ins.sf ELSE st.dst,
                !.index = IF emit THEN index_insert(st.index, key0[1], ins.entry)
                          ELSE st.index,
                !.current_key = IF record.key # key0[1] THEN Some(record.key) ELSE key0,
                !.current_val = RecVal(record)]

\* let record = src.read_record()?  on the picked chunk p.i, whose read
\* returned r, followed by the loop body.
merge_take(st, p, r) ==
    collapse([st EXCEPT !.srcs = [p.srcs EXCEPT ![p.i] = r.sf]], r.rec)

\* while let Some(src) = pick(srcs) { ... }
RECURSIVE merge_loop(_)
merge_picked(st, p) ==
    IF p.i = 0 THEN [st EXCEPT !.srcs = p.srcs]
    ELSE merge_loop(merge_take(st, p, read_record(p.srcs[p.i])))

merge_loop(st) == IF st.ok THEN merge_picked(st, pick(st.srcs)) ELSE st

\* The records merge's loop reads, in the order it reads them: the record
\* of the picked chunk, then those of the following turns.
RECURSIVE merge_feed(_)
feed_read(p, r) == <<r.rec>> \o merge_feed([p.srcs EXCEPT ![p.i] = r.sf])

feed_picked(p) == IF p.i = 0 THEN <<>> ELSE feed_read(p, read_record(p.srcs[p.i]))

merge_feed(srcs) == feed_picked(pick(srcs))

\* Mutant of merge_finish: the pending key is written but not indexed.
merge_finish_unindexed(st) ==
    LET ins == StoreFile_insert(st.dst, st.current_key[1], st.current_val[1])
    IN  IF st.current_val # None
        THEN [ok |-> TRUE, dst |-> ins.sf, index |-> st.index]
        ELSE [ok |-> TRUE, dst |-> st.dst, index |-> st.index]

\* The end of merge, after the loop: the pending key is written if it has a
\* value.
merge_finish(st) ==
    LET ins == StoreFile_insert(st.dst, st.current_key[1], st.current_val[1])
    IN  IF ~st.ok \/ (st.current_val # None /\ insert_fails(st))
        THEN [ok |-> FALSE, dst |-> st.dst, index |-> st.index]
        ELSE IF st.current_val # None
        THEN [ok |-> TRUE, dst |-> ins.sf,
              index |-> index_insert(st.index, st.current_key[1], ins.entry)]
        ELSE [ok |-> TRUE, dst |-> st.dst, index |-> st.index]

\* merge(dst, srcs) on a device that raises `fault`.
merge_with(dst, srcs, fault) ==
    merge_finish(merge_loop([dst |-> dst, srcs |-> srcs, index |-> EmptyIndex,
                             current_key |-> None, current_val |-> None,
                             ok |-> TRUE, fault |-> fault]))

\* merge(dst, srcs) without I/O errors.
merge(dst, srcs) == merge_with(dst, srcs, NoFault)

\* ----------------------------------------------------------------- Store
VARIABLES
    files,    \* Store::files: FileId -> StoreFile
    index,    \* Store::index: key -> IndexEntry
    scratch,  \* chunk files left in the scratch directory base/<id>
    latest,   \* history: per key, Some(value of its last insert) or None
    last_op,  \* history: the last call and what it returned
    ops       \* history: number of insert/remove calls (and of reduce calls
              \* on a failing device) so far

vars == <<files, index, scratch, latest, last_op, ops>>

\* A call and what it returned: ok is Ok/Err, found the bool of remove, out
\* the Option of lookup, rec the Option<Record> of the readers of file(), at
\* the append offset / cursor the call of reset() or unset() found, fault
\* the I/O error the device raised during reduce and stage the step of
\* reduce that returned Err.
Call(op, key, val, limit, found, out) ==
    [op |-> op, key |-> key, val |-> val, limit |-> limit,
     ok |-> TRUE, found |-> found, out |-> out, rec |-> None,
     at |-> 0, fault |-> NoFault, stage |-> ""]

\* Store::open on an empty base directory.
Init ==
    /\ files = [f \in {ActiveId} |-> open(ActiveId, <<>>)]
    /\ index = EmptyIndex
    /\ scratch = <<>>
    /\ latest = [k \in Keys |-> None]
    /\ last_op = Call("open", <<>>, <<>>, 0, FALSE, None)
    /\ ops = 0

\* Store::insert
Insert(key, val) ==
    /\ ops < MaxOps
    /\ \E r \in {StoreFile_insert(files[ActiveId], key, val)} :
           /\ files' = [files EXCEPT ![ActiveId] = r.sf]
           /\ index' = index_insert(index, key, r.entry)
    /\ latest' = [latest EXCEPT ![key] = Some(val)]
    /\ last_op' = Call("insert", key, val, 0, FALSE, None)
    /\ ops' = ops + 1
    /\ UNCHANGED scratch

\* Mutant of Remove: the result is taken from the index after the removal.
Remove_found_after(key) ==
    /\ ops < MaxOps
    /\ files' = [files EXCEPT ![ActiveId] = StoreFile_remove(files[ActiveId], key)]
    /\ index' = index_remove(index, key)
    /\ latest' = [latest EXCEPT ![key] = None]
    /\ last_op' = Call("remove", key, <<>>, 0, key \in DOMAIN index', None)
    /\ ops' = ops + 1
    /\ UNCHANGED scratch

\* Mutant of Remove: no tombstone is written for a key that is not indexed.
Remove_skip_absent(key) ==
    /\ ops < MaxOps
    /\ files' = IF key \in DOMAIN index
                THEN [files EXCEPT ![ActiveId] = StoreFile_remove(files[ActiveId], key)]
                ELSE files
    /\ index' = index_remove(index, key)
    /\ latest' = [latest EXCEPT ![key] = None]
    /\ last_op' = Call("remove", key, <<>>, 0, key \in DOMAIN index, None)
    /\ ops' = ops + 1
    /\ UNCHANGED scratch

\* Store::remove
Remove(key) ==
    /\ ops < MaxOps
    /\ files' = [files EXCEPT ![ActiveId] = StoreFile_remove(files[ActiveId], key)]
    /\ index' = index_remove(index, key)
    /\ latest' = [latest EXCEPT ![key] = None]
    /\ last_op' = Call("remove", key, <<>>, 0, key \in DOMAIN index, None)
    /\ ops' = ops + 1
    /\ UNCHANGED scratch

\* Store::lookup as a function of the store: io::Result<Option<Vec<u8>>>.
\* The entry's file is always resident here (there is one FileId).
lookup(fs, idx, key) ==
    IF key \in DOMAIN idx
    THEN LET e == idx[key]
             r == read(fs[e.file], e.offset, e.length)
         IN  [ok    |-> r.ok,
              out   |-> IF r.ok THEN Some(r.buf) ELSE None,
              files |-> [fs EXCEPT ![e.file] = r.sf]]
    ELSE [ok |-> TRUE, out |-> None, files |-> fs]

\* What lookup returns: io::Result<Option<Vec<u8>>>.
Returned(r) == [ok |-> r.ok, out |-> r.out]

Lookup(key) ==
    /\ \E r \in {lookup(files, index, key)} :
           /\ files' = r.files
           /\ last_op' = [Call("lookup", key, <<>>, 0, FALSE, r.out) EXCEPT !.ok = r.ok]
    /\ UNCHANGED <<index, scratch, latest, ops>>

\* Store::reduce after split returned s: the active file is replaced by a
\* truncated one and the chunks are merged into it.
reduce_merge(s) == merge(make(ActiveId, s.src.file.bytes), s.chunks)

\* Store::reduce
Reduce(limit) ==
    /\ \E m \in {reduce_merge(split(files[ActiveId], scratch, limit))} :
           /\ files' = [files EXCEPT ![ActiveId] = m.dst]
           /\ index' = m.index
    /\ scratch' = <<>>
    /\ last_op' = Call("reduce", <<>>, <<>>, limit, FALSE, None)
    /\ UNCHANGED <<latest, ops>>

\* Store::open called again on the same base directory (by a later run of
\* the program, or while the old Store is dropped): the active log is opened
\* as the earlier calls left it and the index starts empty.
Open ==
    /\ files' = [f \in {ActiveId} |-> open(ActiveId, files[ActiveId].file.bytes)]
    /\ index' = EmptyIndex
    /\ last_op' = Call("open", <<>>, <<>>, 0, FALSE, None)
    /\ UNCHANGED <<scratch, latest, ops>>

Next ==
    \/ \E key \in Keys, val \in Vals : Insert(key, val)
    \/ \E key \in Keys : Remove(key)
    \/ \E key \in Keys : Lookup(key)
    \/ \E limit \in Limits : Reduce(limit)

Spec == Init /\ [][Next]_vars

\* The same Store API with Store::open callable on a used directory.
NextReopen == Next \/ Open

SpecReopen == Init /\ [][NextReopen]_vars

\* store.file().reset()
FileReset ==
    /\ files' = [files EXCEPT ![ActiveId] = reset(files[ActiveId])]
    /\ last_op' = [Call("reset", <<>>, <<>>, 0, FALSE, None)
                      EXCEPT !.at = files[ActiveId].offset]
    /\ UNCHANGED <<index, scratch, latest, ops>>

\* store.file().unset()
FileUnset ==
    /\ files' = [files EXCEPT ![ActiveId] = unset(files[ActiveId])]
    /\ last_op' = [Call("unset", <<>>, <<>>, 0, FALSE, None)
                      EXCEPT !.at = files[ActiveId].offset]
    /\ UNCHANGED <<index, scratch, latest, ops>>

\* store.file().read_record(), which is also what Iterator::next() calls.
FileReadRecord ==
    /\ \E r \in {read_record(files[ActiveId])} :
           /\ files' = [files EXCEPT ![ActiveId] = r.sf]
           /\ last_op' = [Call("read_record", <<>>, <<>>, 0, FALSE, None)
                             EXCEPT !.ok = r.ok,
                                    !.rec = IF r.ok THEN Some(r.rec) ELSE None]
    /\ UNCHANGED <<index, scratch, latest, ops>>

\* store.file().peek_record()
FilePeekRecord ==
    /\ \E r \in {peek_record(files[ActiveId])} :
           /\ files' = [files EXCEPT ![ActiveId] = r.sf]
           /\ last_op' = [Call("peek_record", <<>>, <<>>, 0, FALSE, None)
                             EXCEPT !.ok = r.ok,
                                    !.rec = IF r.ok THEN Some(r.rec) ELSE None]
    /\ UNCHANGED <<index, scratch, latest, ops>>

\* The Store API together with the cursor of the active log that
\* Store::file() hands out.
NextFile ==
    \/ \E key \in Keys, val \in Vals : ops < MaxCursorOps /\ Insert(key, val)
    \/ \E key \in Keys : ops < MaxCursorOps /\ Remove(key)
    \/ \E key \in Keys : Lookup(key)
    \/ FileReset
    \/ FileUnset
    \/ FileReadRecord
    \/ FilePeekRecord

SpecFile == Init /\ [][NextFile]_vars

\* Store::insert when self.file.insert(key, val)? fails with an I/O error
\* after n write_all calls: `?` returns before index.insert.
InsertFail(key, val, n) ==
    /\ ops < MaxOps
    /\ files' = [files EXCEPT ![ActiveId] =
                     StoreFile_insert_fail(files[ActiveId], key, val, n)]
    /\ last_op' = [Call("insert", key, val, 0, FALSE, None) EXCEPT !.ok = FALSE]
    /\ ops' = ops + 1
    /\ UNCHANGED <<index, scratch, latest>>

\* Store::remove when self.file.remove(key)? fails with an I/O error after n
\* write_all calls: `?` returns before index.remove.
RemoveFail(key, n) ==
    /\ ops < MaxOps
    /\ files' = [files EXCEPT ![ActiveId] =
                     StoreFile_remove_fail(files[ActiveId], key, n)]
    /\ last_op' = [Call("remove", key, <<>>, 0, FALSE, None) EXCEPT !.ok = FALSE]
    /\ ops' = ops + 1
    /\ UNCHANGED <<index, scratch, latest>>

\* The I/O errors explored during reduce: the first or the second call of
\* a kind fails.
FaultAt == {0, 1}
Faults ==
    {[kind |-> k, at |-> n] : k \in {"split_read", "split_write", "merge_write"},
                              n \in FaultAt}
        \cup {[kind |-> k, at |-> 0] : k \in {"make", "cleanup"}}

\* The bytes of the chunk files, as they stay in the scratch directory when
\* reduce returns before remove_dir_all.
RECURSIVE chunk_bytes(_)
chunk_bytes(chunks) ==
    IF chunks = <<>> THEN <<>>
    ELSE <<Head(chunks).file.bytes>> \o chunk_bytes(Tail(chunks))

\* Mutant of reduce_result: when merge fails, the index holds the keys merge
\* had written so far.
reduce_result_partial_index(s, m, fault) ==
    IF ~s.ok
    THEN [file |-> s.src, index |-> None, scratch |-> chunk_bytes(s.chunks),
          ok |-> FALSE, stage |-> "split"]
    ELSE IF fault.kind = "make"
    THEN [file |-> s.src, index |-> None, scratch |-> chunk_bytes(s.chunks),
          ok |-> FALSE, stage |-> "make"]
    ELSE IF ~m.ok
    THEN [file |-> m.dst, index |-> Some(m.index), scratch |-> chunk_bytes(s.chunks),
          ok |-> FALSE, stage |-> "merge"]
    ELSE IF fault.kind = "cleanup"
    THEN [file |-> m.dst, index |-> Some(m.index), scratch |-> chunk_bytes(s.chunks),
          ok |-> FALSE, stage |-> "cleanup"]
    ELSE [file |-> m.dst, index |-> Some(m.index), scratch |-> <<>>,
          ok |-> TRUE, stage |-> ""]

\* What Store::reduce leaves and returns, s being what split returned and m
\* what merge would return: [files, index, scratch, ok, stage].
reduce_result(s, m, fault) ==
    IF ~s.ok
    THEN [file |-> s.src, index |-> None, scratch |-> chunk_bytes(s.chunks),
          ok |-> FALSE, stage |-> "split"]
    ELSE IF fault.kind = "make"
    THEN [file |-> s.src, index |-> None, scratch |-> chunk_bytes(s.chunks),
          ok |-> FALSE, stage |-> "make"]
    ELSE IF ~m.ok
    THEN [file |-> m.dst, index |-> None, scratch |-> chunk_bytes(s.chunks),
          ok |-> FALSE, stage |-> "merge"]
    ELSE IF fault.kind = "cleanup"
    THEN [file |-> m.dst, index |-> Some(m.index), scratch |-> chunk_bytes(s.chunks),
          ok |-> FALSE, stage |-> "cleanup"]
    ELSE [file |-> m.dst, index |-> Some(m.index), scratch |-> <<>>,
          ok |-> TRUE, stage |-> ""]

\* Store::reduce after split returned s, on a device that raises `fault`.
reduce_with(s, fault) ==
    reduce_result(s,
                  IF s.ok /\ fault.kind # "make"
                  THEN merge_with(make(ActiveId, s.src.file.bytes), s.chunks, fault)
                  ELSE [ok |-> FALSE],
                  fault)

\* Store::reduce on a device that raises `fault`: an Err of split, make or
\* merge leaves through `?`, before self.index is assigned and before
\* remove_dir_all; an Err of remove_dir_all leaves after the assignment.
ReduceFault(limit, fault) ==
    /\ ops < MaxOps
    /\ \E r \in {reduce_with(split_with(files[ActiveId], scratch, limit, fault), fault)} :
           /\ files' = [files EXCEPT ![ActiveId] = r.file]
           /\ index' = IF r.index = None THEN index ELSE r.index[1]
           /\ scratch' = r.scratch
           /\ last_op' = [Call("reduce", <<>>, <<>>, limit, FALSE, None)
                             EXCEPT !.ok = r.ok, !.stage = r.stage, !.fault = fault]
    /\ ops' = ops + 1
    /\ UNCHANGED latest

\* The Store API on a device that can fail during reduce.
NextReduceFault ==
    \/ \E key \in Keys, val \in Vals : Insert(key, val)
    \/ \E key \in Keys : Remove(key)
    \/ \E limit \in Limits : Reduce(limit)
    \/ \E limit \in Limits, fault \in Faults : ReduceFault(limit, fault)

SpecReduceFault == Init /\ [][NextReduceFault]_vars

\* The Store API on a device whose writes can fail.
NextWriteFault ==
    \/ \E key \in Keys, val \in Vals : Insert(key, val)
    \/ \E key \in Keys : Remove(key)
    \/ \E key \in Keys : Lookup(key)
    \/ \E key \in Keys, val \in Vals, n \in 0..4 : InsertFail(key, val, n)
    \/ \E key \in Keys, n \in 0..2 : RemoveFail(key, n)

SpecWriteFault == Init /\ [][NextWriteFault]_vars

\* ------------------------------------------------------------ properties
\* The active log and what a scan of it from reset() yields.
Active == files[ActiveId]
Bytes == Active.file.bytes
Log == Iterate(reset(Active))

RECURSIVE SumLen(_)
SumLen(recs) == IF recs = <<>> THEN 0 ELSE RecLen(Head(recs)) + SumLen(Tail(recs))

\* Byte offset at which the i-th record of the scan `log` starts.
RecStart(log, i) == SumLen(SubSeq(log, 1, i - 1))

\* The scan stopped at the end of the file, not at an undecodable record.
ScanIsWhole(log) == SumLen(log) = Len(Bytes)

\* Lexicographic byte order, a proper prefix first.
LexLess(a, b) ==
    \E i \in 1..Len(b) :
        /\ \A j \in 1..(i - 1) : j <= Len(a) /\ a[j] = b[j]
        /\ (i = Len(a) + 1 \/ (i <= Len(a) /\ a[i] < b[i]))

LiveKeys == {k \in Keys : latest[k] # None}

\* The last record for key k among the records of `log` that start before
\* the append offset: None or Some(record).
LastRecordFor(log, k) ==
    LET at == {i \in 1..Len(log) : log[i].key = k /\ RecStart(log, i) < Active.offset}
    IN  IF at = {} THEN None
        ELSE Some(log[CHOOSE i \in at : \A j \in at : j <= i])

LastIsInsert(log, k) ==
    \E last \in {LastRecordFor(log, k)} : last # None /\ last[1].tag = "Insert"

LastIsRemove(log, k) ==
    \E last \in {LastRecordFor(log, k)} : last # None /\ last[1].tag = "Remove"

\* C1: on a fresh store, lookup(K) returns Some(V) for the value V of the
\* most recent insert(K, _) when K's most recent mutation was an insert, and
\* None when K was never inserted or was removed last; a lookup call returns
\* exactly that.
C1_LookupReturnsLatest ==
    /\ \A k \in Keys :
           Returned(lookup(files, index, k)) = [ok |-> TRUE, out |-> latest[k]]
    /\ last_op.op = "lookup" => (last_op.ok /\ last_op.out = latest[last_op.key])

\* A lookup returned the value of a key whose earlier insert is shadowed in
\* the log, while another key's last record is a tombstone.
C1_Witness ==
    /\ last_op.op = "lookup"
    /\ last_op.out # None
    /\ \E log \in {Log} :
           /\ \E i \in 1..Len(log) :
                  /\ log[i].tag = "Insert"
                  /\ log[i].key = last_op.key
                  /\ log[i].val # last_op.out[1]
           /\ \E k \in Keys \ {last_op.key} : LastIsRemove(log, k)

\* C2: a reduce step, for every limit, leaves the result of lookup the same
\* for every key.
C2_ReducePreservesLookup ==
    [][last_op'.op = "reduce" =>
          \A k \in Keys :
              Returned(lookup(files', index', k)) = Returned(lookup(files, index, k))]_vars

\* A reduce with one record per chunk ran after three mutations and left
\* fewer records than mutations, with a live key.
C2_Witness ==
    /\ last_op.op = "reduce"
    /\ last_op.limit = 1
    /\ ops = 3
    /\ Len(Log) < 3
    /\ index # EmptyIndex

\* C3: after a reduce, the scan of the active log from reset() reaches the
\* end of the file and its keys are strictly ascending in lexicographic
\* byte order.
C3_ReduceSorted ==
    last_op.op = "reduce" =>
        \E log \in {Log} :
            /\ ScanIsWhole(log)
            /\ \A i \in 1..(Len(log) - 1) : LexLess(log[i].key, log[i + 1].key)

\* A reduce left all three keys in the log.
C3_Witness ==
    /\ last_op.op = "reduce"
    /\ Len(Log) = 3

\* C4: after a reduce, the active log holds only Insert records, exactly one
\* per live key; their number is Store::len(), and 0 when no key is live.
C4_ReducePure ==
    last_op.op = "reduce" =>
        \E log \in {Log} :
            /\ ScanIsWhole(log)
            /\ \A i \in 1..Len(log) : log[i].tag = "Insert"
            /\ {log[i].key : i \in 1..Len(log)} = LiveKeys
            /\ Len(log) = Cardinality(LiveKeys)
            /\ Len(log) = Cardinality(DOMAIN index)
            /\ (LiveKeys = {} => Bytes = <<>>)

\* A reduce after three mutations with a single live key: records of the
\* log were dropped.
C4_Witness ==
    /\ last_op.op = "reduce"
    /\ ops = 3
    /\ Cardinality(LiveKeys) = 1
    /\ Len(Log) = 1

\* C5: remove(K) returns true iff K's most recent mutation before the call
\* was an insert, which is iff K is in the index.
C5_RemoveReturn ==
    [][(last_op'.op = "remove" /\ ops' = ops + 1) =>
          /\ last_op'.found <=> (latest[last_op'.key] # None)
          /\ last_op'.found <=> (last_op'.key \in DOMAIN index)]_vars

\* remove(K) returned true after a reduce: three mutations were made and the
\* log is the reduced Insert(K, _) followed by the tombstone.
C5_Witness ==
    /\ last_op.op = "remove"
    /\ last_op.found
    /\ ops = 3
    /\ Log = <<InsertRec(last_op.key, Log[1].val), RemoveRec(last_op.key)>>

\* C6: remove(K) extends the active log by exactly the 12 + |K| bytes of a
\* Remove(K) record, whether or not K is in the index.
C6_RemoveAppendsTombstone ==
    [][(last_op'.op = "remove" /\ ops' = ops + 1) =>
          /\ Len(files'[ActiveId].file.bytes) = Len(Bytes) + 12 + Len(last_op'.key)
          /\ files'[ActiveId].file.bytes =
                 Bytes \o <<0, 0, 0, 0, 0, 0, 0, 2>>
                       \o <<0, 0, 0, Len(last_op'.key)>> \o last_op'.key]_vars

\* remove(K) returned false and the log ends with the tombstone of K.
C6_Witness ==
    /\ last_op.op = "remove"
    /\ ~last_op.found
    /\ \E log \in {Log} :
           /\ Len(log) >= 2
           /\ log[Len(log)] = RemoveRec(last_op.key)
           /\ ScanIsWhole(log)

\* C7: after every successful insert or remove, also on a Store opened over
\* a non-empty log, the append offset equals the length of the file.
C7_OffsetIsFileLength ==
    (last_op.op \in {"insert", "remove"} /\ last_op.ok) =>
        Active.offset = Len(Bytes)

\* C8: insert and remove only extend the active log, also on a Store opened
\* over a non-empty log: the bytes present before the call are unchanged.
C8_AppendOnly ==
    [][(last_op'.op \in {"insert", "remove"} /\ ops' = ops + 1) =>
          /\ Len(files'[ActiveId].file.bytes) >= Len(Bytes)
          /\ SubSeq(files'[ActiveId].file.bytes, 1, Len(Bytes)) = Bytes]_vars

\* C9: every index entry names the active file and the value bytes of an
\* Insert(K, V) record of the log: offset = record start + 16 + |K|,
\* length = |V|, and the bytes in that range are V.
C9_IndexEntriesPointAtValues ==
    \E log \in {Log} :
        \A k \in DOMAIN index :
            /\ index[k].file = ActiveId
            /\ \E i \in 1..Len(log), start \in 0..Len(Bytes) :
                   /\ start = RecStart(log, i)
                   /\ log[i].tag = "Insert"
                   /\ log[i].key = k
                   /\ SubSeq(Bytes, start + 1, start + 16) =
                          <<0, 0, 0, 0, 0, 0, 0, 1>> \o <<0, 0, 0, Len(k)>>
                              \o <<0, 0, 0, Len(log[i].val)>>
                   /\ index[k].offset = start + 16 + Len(k)
                   /\ index[k].length = Len(log[i].val)
                   /\ index[k].offset + index[k].length <= Len(Bytes)
                   /\ SubSeq(Bytes, index[k].offset + 1,
                             index[k].offset + index[k].length) = log[i].val

\* An insert after a reduce: three mutations, two records, two indexed keys.
C9_Witness ==
    /\ last_op.op = "insert"
    /\ ops = 3
    /\ Len(Log) = 2
    /\ Cardinality(DOMAIN index) = 2

\* C10: after an insert, remove or reduce, a key is in the index iff the
\* last record for it in the active log, scanning from byte 0 to the append
\* offset, is an Insert.
C10_IndexIffLastIsInsert ==
    last_op.op \in {"insert", "remove", "reduce"} =>
        /\ Active.offset = Len(Bytes)
        /\ \E log \in {Log} :
               \A k \in Keys : (k \in DOMAIN index) <=> LastIsInsert(log, k)

\* An insert after a reduce that dropped a removed key: three mutations, one
\* record, and only the inserted key is indexed.
C10_Witness ==
    /\ last_op.op = "insert"
    /\ ops = 3
    /\ Len(Log) = 1
    /\ DOMAIN index = {last_op.key}
    /\ \E k \in Keys \ {last_op.key} : LastRecordFor(Log, k) = None

\* C11: a lookup call, for a key that is present or absent and whatever the
\* cursor and the peek cache of the active log are, leaves the append
\* offset, the stream position, the peek cache, the bytes of the file and
\* the index as they were; so the next insert is written where it would
\* have been written and every lookup returns what it would have returned.
C11_LookupFrame ==
    [][last_op'.op = "lookup" =>
          /\ files'[ActiveId].offset = Active.offset
          /\ files'[ActiveId].file.pos = Active.file.pos
          /\ files'[ActiveId].recent_peek = Active.recent_peek
          /\ files'[ActiveId].file.bytes = Bytes
          /\ index' = index
          /\ \A k \in Keys, v \in Vals :
                 StoreFile_insert(files'[ActiveId], k, v) = StoreFile_insert(Active, k, v)
          /\ \A k \in Keys :
                 Returned(lookup(files', index', k)) = Returned(lookup(files, index, k))]_vars

\* A lookup returned a value that does not end where the stream position
\* is, while the cursor stood inside the log with a record in the peek
\* cache.
C11_Witness ==
    /\ last_op.op = "lookup"
    /\ last_op.ok
    /\ last_op.out # None
    /\ Active.recent_peek # None
    /\ Active.offset < Len(Bytes)
    /\ index[last_op.key].offset + index[last_op.key].length # Active.file.pos

\* C12: after unset(), however many records were read since reset(), the
\* log is in the Appending state: the append offset and the stream position
\* equal the file length, and an insert or remove called next is written
\* at the end of the file, the bytes before it unchanged.
C12_UnsetRestoresAppending ==
    last_op.op = "unset" =>
        /\ Active.offset = Len(Bytes)
        /\ Active.file.pos = Len(Bytes)
        /\ \A k \in Keys, v \in Vals :
               StoreFile_insert(Active, k, v).sf.file.bytes =
                   Bytes \o <<0, 0, 0, 0, 0, 0, 0, 1>> \o <<0, 0, 0, Len(k)>>
                         \o <<0, 0, 0, Len(v)>> \o k \o v
        /\ \A k \in Keys :
               StoreFile_remove(Active, k).file.bytes =
                   Bytes \o <<0, 0, 0, 0, 0, 0, 0, 2>> \o <<0, 0, 0, Len(k)>> \o k

\* unset() was called with the cursor between the two records of the log,
\* that is after a reset() and one read.
C12_Witness ==
    /\ last_op.op = "unset"
    /\ last_op.at > 0
    /\ \E log \in {Log} :
           /\ Len(log) = 2
           /\ ScanIsWhole(log)
           /\ last_op.at = RecLen(log[1])

\* What read_record or peek_record hands to its caller.
Yielded(r) == [ok |-> r.ok, rec |-> r.rec]

\* C13: reset() and unset() invalidate the peek cache: after reset() the
\* next read_record or peek_record returns the first record of the file
\* (or fails as a read at byte 0 fails), and after unset() the next
\* read_record reports the end of the file, whatever an earlier peek_record
\* cached.
C13_PeekCacheInvalidated ==
    /\ last_op.op = "reset" =>
           /\ Yielded(read_record(Active)) =
                  Yielded(read_record([Active EXCEPT !.recent_peek = None]))
           /\ Yielded(peek_record(Active)) =
                  Yielded(read_record([Active EXCEPT !.recent_peek = None]))
    /\ last_op.op = "unset" => ~read_record(Active).ok

\* C16: an insert or remove that fails with an I/O error, also after a
\* partial write, does not modify the index, and index and log stay
\* consistent: after every call, each key looks up to the value of its last
\* successful insert, or to None when it has none or was removed since.
C16_FailedWriteKeepsConsistency ==
    [][/\ (last_op'.op \in {"insert", "remove"} /\ ~last_op'.ok /\ ops' = ops + 1)
           => index' = index
       /\ \A k \in Keys :
              Returned(lookup(files', index', k)) = [ok |-> TRUE, out |-> latest'[k]]]_vars

\* C14: a failure to read or decode a record of the active log during
\* split that is not the clean end of the file (an I/O error of
\* read_record while records remain, or an undecodable record before the
\* end of the file) makes reduce return Err.
C14_ReduceReportsReadFailure ==
    [][(/\ last_op'.op = "reduce"
        /\ \E log \in {Log} :
               \/ last_op'.fault.kind = "split_read" /\ last_op'.fault.at < Len(log)
               \/ ~ScanIsWhole(log))
          => ~last_op'.ok]_vars

\* C15: a reduce call that returns an Err raised during split, make or merge
\* leaves the index exactly as it was.
C15_FailedReduceKeepsIndex ==
    [][(/\ last_op'.op = "reduce"
        /\ ~last_op'.ok
        /\ last_op'.stage \in {"split", "make", "merge"})
          => index' = index]_vars

\* reduce failed in merge at its second insert: the active file was replaced
\* and holds one record, and the index still holds its two keys.
C15_Witness ==
    /\ last_op.op = "reduce"
    /\ ~last_op.ok
    /\ last_op.stage = "merge"
    /\ Cardinality(DOMAIN index) = 2
    /\ Len(Log) = 1
    /\ ScanIsWhole(Log)

\* C20: a reduce call that fails during split leaves the Store as if it had
\* not been called: the bytes of the active log are unchanged, an insert or
\* remove called next is appended at the end of the file, and every lookup
\* returns what it returned before.
C20_FailedSplitIsNoOp ==
    [][(last_op'.op = "reduce" /\ ~last_op'.ok /\ last_op'.stage = "split") =>
          /\ files'[ActiveId].file.bytes = Bytes
          /\ \A k \in Keys, v \in Vals :
                 StoreFile_insert(files'[ActiveId], k, v).sf.file.bytes =
                     Bytes \o <<0, 0, 0, 0, 0, 0, 0, 1>> \o <<0, 0, 0, Len(k)>>
                           \o <<0, 0, 0, Len(v)>> \o k \o v
          /\ \A k \in Keys :
                 StoreFile_remove(files'[ActiveId], k).file.bytes =
                     Bytes \o <<0, 0, 0, 0, 0, 0, 0, 2>> \o <<0, 0, 0, Len(k)>> \o k
          /\ \A k \in Keys :
                 Returned(lookup(files', index', k)) = Returned(lookup(files, index, k))]_vars

\* The records of `recs` for key k, in their order.
RECURSIVE ForKey(_, _)
ForKey(recs, k) ==
    IF recs = <<>> THEN <<>>
    ELSE (IF Head(recs).key = k THEN <<Head(recs)>> ELSE <<>>) \o ForKey(Tail(recs), k)

\* C17: for every limit, merge reads the records of the chunks split made
\* in ascending key order, and the records of one key in the order they
\* have in the log; so the last record it reads for a key is the key's last
\* record in the log.
C17_MergeKeepsLogOrder ==
    \E log \in {Log} :
        \A limit \in Limits :
            \E fed \in {merge_feed(split(Active, scratch, limit).chunks)} :
                /\ Len(fed) = Len(log)
                /\ \A i \in 1..(Len(fed) - 1) : cmp(fed[i].key, fed[i + 1].key) <= 0
                /\ \A k \in Keys : ForKey(fed, k) = ForKey(log, k)

\* The log holds three records, the first and the third for one key and
\* different, the second for a smaller key: with two records per chunk the
\* two records of the key come from different chunks, with one chunk they
\* are sorted together.
C17_Witness ==
    \E log \in {Log} :
        /\ Len(log) = 3
        /\ log[1].key = log[3].key
        /\ log[1] # log[3]
        /\ cmp(log[2].key, log[1].key) < 0

\* The records of all chunk files, chunk after chunk.
RECURSIVE ChunkRecords(_)
ChunkRecords(chunks) ==
    IF chunks = <<>> THEN <<>>
    ELSE Iterate(Head(chunks)) \o ChunkRecords(Tail(chunks))

\* How many times record r occurs in recs.
Count(recs, r) == Cardinality({i \in 1..Len(recs) : recs[i] = r})

\* C18: for every limit, split on an empty scratch directory succeeds and
\* puts every record of the log into the chunk files as often as the log
\* holds it, tombstones and duplicates included; every chunk file decodes
\* to its end and its keys are in ascending order.
C18_SplitPartitionsLog ==
    \E log \in {Log} :
        \A limit \in Limits :
            \E s \in {split(Active, <<>>, limit)} :
                /\ s.ok
                /\ \E all \in {ChunkRecords(s.chunks)} :
                       /\ Len(all) = Len(log)
                       /\ \A i \in 1..Len(log) : Count(all, log[i]) = Count(log, log[i])
                /\ \A c \in 1..Len(s.chunks) :
                       \E recs \in {Iterate(s.chunks[c])} :
                           /\ SumLen(recs) = Len(s.chunks[c].file.bytes)
                           /\ \A i \in 1..(Len(recs) - 1) :
                                  cmp(recs[i].key, recs[i + 1].key) <= 0

\* The log holds the same Insert record twice with a tombstone of its key
\* in between.
C18_Witness ==
    \E log \in {Log} :
        /\ Len(log) = 3
        /\ log[1] = log[3]
        /\ log[1].tag = "Insert"
        /\ log[2] = RemoveRec(log[1].key)
        /\ scratch = <<>>

\* The Store after Store::insert(k, v) on the store [fs, idx].
AfterInsert(fs, idx, k, v) ==
    LET r == StoreFile_insert(fs[ActiveId], k, v)
    IN  [files |-> [fs EXCEPT ![ActiveId] = r.sf],
         index |-> index_insert(idx, k, r.entry)]

\* C19: after a successful reduce, without any unset(), the append offset
\* and the stream position both equal the length of the new file; an
\* insert or remove called next is written behind the last merged record,
\* a lookup of the inserted key returns the new value, and every other key
\* still looks up to what it did.
C19_ReduceLeavesAppending ==
    (last_op.op = "reduce" /\ last_op.ok) =>
        /\ Active.offset = Len(Bytes)
        /\ Active.file.pos = Len(Bytes)
        /\ \A k \in Keys, v \in Vals :
               \E a \in {AfterInsert(files, index, k, v)} :
                   /\ a.files[ActiveId].file.bytes =
                          Bytes \o <<0, 0, 0, 0, 0, 0, 0, 1>> \o <<0, 0, 0, Len(k)>>
                                \o <<0, 0, 0, Len(v)>> \o k \o v
                   /\ Returned(lookup(a.files, a.index, k)) = [ok |-> TRUE, out |-> Some(v)]
                   /\ \A k2 \in Keys \ {k} :
                          Returned(lookup(a.files, a.index, k2)) =
                              [ok |-> TRUE, out |-> latest[k2]]
        /\ \A k \in Keys :
               /\ StoreFile_remove(Active, k).file.bytes =
                      Bytes \o <<0, 0, 0, 0, 0, 0, 0, 2>> \o <<0, 0, 0, Len(k)>> \o k
               /\ \A k2 \in Keys \ {k} :
                      Returned(lookup([files EXCEPT ![ActiveId] = StoreFile_remove(Active, k)],
                                      index_remove(index, k), k2)) =
                          [ok |-> TRUE, out |-> latest[k2]]

\* A reduce with two records per chunk ran after three mutations and kept
\* two keys.
C19_Witness ==
    /\ last_op.op = "reduce"
    /\ last_op.ok
    /\ last_op.limit = 40
    /\ ops = 3
    /\ Len(Log) = 2
    /\ Cardinality(DOMAIN index) = 2

====
